---- MODULE Spec2Model ----
(***************************************************************************)
(* State-machine model of scripts.js: page startup, the search button and  *)
(* location input listeners, the asynchronous lookup                       *)
(* (getWeatherInformation / fetchWeatherData) and the pure helpers         *)
(* validateLocationInput and getWeatherEmoji.                              *)
(*                                                                         *)
(* JavaScript strings are sequences of one-character strings, so that      *)
(* trim, toLowerCase, includes and template interpolation are computed.    *)
(***************************************************************************)
EXTENDS Integers, Sequences, FiniteSets, TLC

\* ---------------------------------------------------------------- bounds
MaxLookups == 2
MaxInputLen == 1
MaxArgLen == 4
MaxFragments == 2

VARIABLES
    present,                \* ids of the required elements that exist in the document
    readyState,             \* document.readyState
    dclFired,               \* DOMContentLoaded has been dispatched
    scriptRan,              \* the top-level code of scripts.js has executed
    dclListeners,           \* listeners registered on document
    locationInputElement,   \* cached element references ("unset", "null", "element")
    searchButtonElement,
    weatherResultElement,
    buttonListeners,        \* listeners registered on the search button
    inputListeners,         \* listeners registered on the location input
    initCalls,              \* number of executions of initializeWeatherApp
    inputValue,             \* locationInputElement.value
    disabled,               \* searchButtonElement.disabled
    buttonClasses,          \* searchButtonElement.classList
    resultClassName,        \* weatherResultElement.className, as a set of classes
    resultContent,          \* what the result container shows
    resultOf,               \* lookup whose outcome the result container shows (0: none)
    inflight,               \* suspended calls of getWeatherInformation
    fetchCount,             \* number of calls of fetch() so far
    lastEvent,              \* the handler step that produced the current state
    arg,                    \* argument of the pure function under test
    ret                     \* its result ("unset" before the call)

vars == <<present, readyState, dclFired, scriptRan, dclListeners,
          locationInputElement, searchButtonElement, weatherResultElement,
          buttonListeners, inputListeners, initCalls, inputValue, disabled,
          buttonClasses, resultClassName, resultContent, resultOf, inflight,
          fetchCount, lastEvent, arg, ret>>

startupVars == <<readyState, dclFired, scriptRan, dclListeners,
                 locationInputElement, searchButtonElement, weatherResultElement,
                 buttonListeners, inputListeners, initCalls>>

pageVars == <<disabled, buttonClasses, resultClassName, resultContent,
              resultOf, inflight, fetchCount>>

pureVars == <<arg, ret>>

\* ------------------------------------------------- configuration (11-38)
DOM_ELEMENTS == [locationInput |-> "location-input",
                 searchButton |-> "search-button",
                 weatherResult |-> "weather-result"]

CSS_CLASSES == [show |-> "show", loading |-> "loading",
                errorMessage |-> "error-message",
                warningMessage |-> "warning-message"]

\* ------------------------------------------------------ string primitives
WhiteSpace == {" ", "\t", "\n"}

RECURSIVE SeqsUpTo(_, _)
SeqsUpTo(chars, n) ==
    IF n = 0 THEN {<< >>}
    ELSE LET shorter == SeqsUpTo(chars, n - 1)
         IN  shorter \cup {Append(s, c) : s \in shorter, c \in chars}

\* String.prototype.trim
Trim(s) ==
    LET keep == {i \in 1..Len(s) : s[i] \notin WhiteSpace}
    IN  IF keep = {} THEN << >>
        ELSE LET lo == CHOOSE i \in keep : \A j \in keep : i <= j
                 hi == CHOOSE i \in keep : \A j \in keep : i >= j
             IN  SubSeq(s, lo, hi)

UpperCase == <<"A", "B", "C", "D", "E", "F", "G", "H", "I", "J", "K", "L", "M", "N", "O", "P", "Q", "R", "S", "T", "U", "V", "W", "X", "Y", "Z">>
LowerCase == <<"a", "b", "c", "d", "e", "f", "g", "h", "i", "j", "k", "l", "m", "n", "o", "p", "q", "r", "s", "t", "u", "v", "w", "x", "y", "z">>

\* String.prototype.toLowerCase
ToLowerCase(s) ==
    [i \in 1..Len(s) |->
        IF \E k \in 1..Len(UpperCase) : UpperCase[k] = s[i]
        THEN LowerCase[CHOOSE k \in 1..Len(UpperCase) : UpperCase[k] = s[i]]
        ELSE s[i]]

\* String.prototype.includes
Includes(s, k) ==
    \E i \in 0..(Len(s) - Len(k)) : SubSeq(s, i + 1, i + Len(k)) = k

Digits == <<"0", "1", "2", "3", "4", "5", "6", "7", "8", "9">>

\* number-to-string conversion of template interpolation, for naturals
RECURSIVE ToDigits(_)
ToDigits(n) ==
    IF n < 10 THEN <<Digits[n + 1]>>
    ELSE Append(ToDigits(n \div 10), Digits[(n % 10) + 1])

\* JavaScript values whose type matters
JsBoolean(b) == [t |-> "boolean", v |-> b]
JsString(s) == [t |-> "string", v |-> s]
Truthy(x) == IF x.t = "boolean" THEN x.v ELSE Len(x.v) > 0

\* ------------------------------------------------ getWeatherEmoji (325-345)
DefaultEmoji == "sun-behind-cloud"

\* variant: thunder/storm is tested before rain/drizzle
getWeatherEmoji_ThunderFirst(condition) ==
    LET conditionLower == ToLowerCase(condition)
    IN  IF Includes(conditionLower, <<"s", "u", "n", "n", "y">>) \/ Includes(conditionLower, <<"c", "l", "e", "a", "r">>)
        THEN "sun"
        ELSE IF Includes(conditionLower, <<"c", "l", "o", "u", "d">>)
        THEN "cloud"
        ELSE IF Includes(conditionLower, <<"t", "h", "u", "n", "d", "e", "r">>) \/ Includes(conditionLower, <<"s", "t", "o", "r", "m">>)
        THEN "thunder-cloud"
        ELSE IF Includes(conditionLower, <<"r", "a", "i", "n">>) \/ Includes(conditionLower, <<"d", "r", "i", "z", "z", "l", "e">>)
        THEN "rain-cloud"
        ELSE IF Includes(conditionLower, <<"s", "n", "o", "w">>)
        THEN "snowflake"
        ELSE IF Includes(conditionLower, <<"f", "o", "g">>) \/ Includes(conditionLower, <<"m", "i", "s", "t">>)
        THEN "fog"
        ELSE IF Includes(conditionLower, <<"w", "i", "n", "d">>)
        THEN "wind"
        ELSE DefaultEmoji

getWeatherEmoji(condition) ==
    LET conditionLower == ToLowerCase(condition)
    IN  IF Includes(conditionLower, <<"s", "u", "n", "n", "y">>) \/ Includes(conditionLower, <<"c", "l", "e", "a", "r">>)
        THEN "sun"
        ELSE IF Includes(conditionLower, <<"c", "l", "o", "u", "d">>)
        THEN "cloud"
        ELSE IF Includes(conditionLower, <<"r", "a", "i", "n">>) \/ Includes(conditionLower, <<"d", "r", "i", "z", "z", "l", "e">>)
        THEN "rain-cloud"
        ELSE IF Includes(conditionLower, <<"s", "n", "o", "w">>)
        THEN "snowflake"
        ELSE IF Includes(conditionLower, <<"t", "h", "u", "n", "d", "e", "r">>) \/ Includes(conditionLower, <<"s", "t", "o", "r", "m">>)
        THEN "thunder-cloud"
        ELSE IF Includes(conditionLower, <<"f", "o", "g">>) \/ Includes(conditionLower, <<"m", "i", "s", "t">>)
        THEN "fog"
        ELSE IF Includes(conditionLower, <<"w", "i", "n", "d">>)
        THEN "wind"
        ELSE DefaultEmoji

\* ------------------------------------------ validateLocationInput (384-386)
\* variant: only the presence of a value is tested
validateLocationInput_PresenceOnly(location) == JsBoolean(TRUE)

\* location && location.trim().length > 0 : the left operand when it is falsy
validateLocationInput(location) ==
    IF ~Truthy(JsString(location)) THEN JsString(location)
    ELSE JsBoolean(Len(Trim(location)) > 0)

\* ------------------------------------------------------ addEventListener
\* A listener is identified by its event type and its callback; registering
\* the same pair again is a no-op.  closure = 0 is a named function, n > 0
\* the arrow function created by the n-th run of the enclosing function.
Listener(type, fn, closure) == [type |-> type, fn |-> fn, closure |-> closure]

addEventListener(listeners, l) ==
    IF \E i \in 1..Len(listeners) : listeners[i] = l THEN listeners
    ELSE Append(listeners, l)

\* ----------------------------------------------- page state of one handler
PageState == [disabled |-> disabled, buttonClasses |-> buttonClasses,
              resultClassName |-> resultClassName,
              resultContent |-> resultContent, resultOf |-> resultOf,
              inflight |-> inflight, fetchCount |-> fetchCount]

SetPage(st) ==
    /\ disabled' = st.disabled
    /\ buttonClasses' = st.buttonClasses
    /\ resultClassName' = st.resultClassName
    /\ resultContent' = st.resultContent
    /\ resultOf' = st.resultOf
    /\ inflight' = st.inflight
    /\ fetchCount' = st.fetchCount

\* --------------------------------------------- animateButtonLoading (155-188)
animateButtonLoading(st, isLoading) ==
    IF isLoading
    THEN [st EXCEPT !.buttonClasses = @ \cup {CSS_CLASSES.loading}]
    ELSE [st EXCEPT !.buttonClasses = @ \ {CSS_CLASSES.loading}]

\* ---------------------------------------------- animateWeatherResult (193-216)
animateWeatherResult(st) ==
    [st EXCEPT !.resultClassName = @ \cup {CSS_CLASSES.show}]

\* --------------------------------------------------- displayMessage (266-284)
displayMessage(st, message, messageType, of) ==
    IF weatherResultElement # "element" THEN st
    ELSE animateWeatherResult(
           [st EXCEPT
              !.resultClassName =
                  {"weather-result-card"} \cup
                  (IF messageType = "error" THEN {CSS_CLASSES.errorMessage}
                   ELSE IF messageType = "warning" THEN {CSS_CLASSES.warningMessage}
                   ELSE {}),
              !.resultContent = [kind |-> "text", text |-> message],
              !.resultOf = of])

\* ------------------------------------------------ showWeatherResult (289-294)
showWeatherResult(st) ==
    IF weatherResultElement # "element" THEN st ELSE animateWeatherResult(st)

\* --------------------------------------------- formatWeatherDisplay (301-318)
\* temp_c is held in tenths of a degree; Math.round rounds halves upwards
MathRound(tenths) == (tenths + 5) \div 10

NumberToString(n) == IF n < 0 THEN <<"-">> \o ToDigits(0 - n) ELSE ToDigits(n)

TypeErrorMessage == <<"C", "a", "n", "n", "o", "t", " ", "r", "e", "a", "d", " ", "p", "r", "o", "p", "e", "r", "t", "i", "e", "s", " ", "o", "f", " ", "u", "n", "d", "e", "f", "i", "n", "e", "d">>

\* the fields read, in the order of the code; a read through a missing
\* object throws a TypeError
formatWeatherDisplay(weatherData) ==
    IF "current" \notin DOMAIN weatherData THEN [threw |-> TRUE, message |-> TypeErrorMessage]
    ELSE IF "condition" \notin DOMAIN weatherData.current THEN [threw |-> TRUE, message |-> TypeErrorMessage]
    ELSE IF "location" \notin DOMAIN weatherData THEN [threw |-> TRUE, message |-> TypeErrorMessage]
    ELSE IF "text" \notin DOMAIN weatherData.current.condition THEN [threw |-> TRUE, message |-> TypeErrorMessage]
    ELSE [threw |-> FALSE,
          html |-> [kind |-> "html",
                    locationName |-> weatherData.location.name \o <<",", " ">> \o weatherData.location.country,
                    temperature |-> NumberToString(MathRound(weatherData.current.temp_c)) \o <<" ", "C">>,
                    weatherIcon |-> getWeatherEmoji(weatherData.current.condition.text),
                    condition |-> weatherData.current.condition.text]]

\* ----------------------------------------------- buildWeatherApiUrl (356-359)
EncodeChar(c) ==
    IF c = " " THEN <<"%", "2", "0">> ELSE IF c = "\t" THEN <<"%", "0", "9">>
    ELSE IF c = "\n" THEN <<"%", "0", "A">> ELSE <<c>>

RECURSIVE encodeURIComponent(_)
encodeURIComponent(s) ==
    IF s = << >> THEN << >> ELSE EncodeChar(Head(s)) \o encodeURIComponent(Tail(s))

buildWeatherApiUrl(location) ==
    [baseUrl |-> "https://api.weatherapi.com/v1/current.json",
     key |-> "77cd39c3c35e4552b93173121250909",
     q |-> encodeURIComponent(Trim(location)),
     options |-> "aqi=no"]

\* ------------------------------------------------- fetchWeatherData (367-377)
\* variant: only client and server errors count as failures
ResponseOk_Below400(status) == status < 400

\* response.ok
ResponseOk(status) == status >= 200 /\ status <= 299

FetchErrorMessage(status) ==
    <<"W", "e", "a", "t", "h", "e", "r", " ", "d", "a", "t", "a", " ", "n", "o", "t", " ", "a", "v", "a", "i", "l", "a", "b", "l", "e", " ", "(">> \o ToDigits(status) \o <<")">>

\* -------------------------------------------- getWeatherInformation (396-454)
\* variant: the finally block re-enables the button but leaves the loading class
Finally_ButtonOnly(st) == [st EXCEPT !.disabled = FALSE]

\* the finally block
Finally(st) == animateButtonLoading([st EXCEPT !.disabled = FALSE], FALSE)

\* the catch block
Catch(st, message, id) == displayMessage(st, <<"E", "r", "r", "o", "r", ":", " ">> \o message, "error", id)

\* the synchronous part, up to the suspension inside fetchWeatherData
getWeatherInformation(st) ==
    LET locationInput == Trim(inputValue)
    IN  IF ~Truthy(validateLocationInput(locationInput))
        THEN displayMessage(st, <<"P", "l", "e", "a", "s", "e", " ", "e", "n", "t", "e", "r", " ", "a", " ", "l", "o", "c", "a", "t", "i", "o", "n", ".">>, "warning", 0)
        ELSE LET id == st.fetchCount + 1
                 loading == animateButtonLoading([st EXCEPT !.disabled = TRUE], TRUE)
             IN  [loading EXCEPT
                    !.fetchCount = id,
                    !.inflight = @ \cup {[id |-> id, pc |-> "fetch",
                                           url |-> buildWeatherApiUrl(locationInput)]}]

\* the part after fetch() settled with a response
AfterResponse(st, l, status) ==
    IF ~ResponseOk(status)
    THEN Finally(Catch([st EXCEPT !.inflight = @ \ {l}], FetchErrorMessage(status), l.id))
    ELSE [st EXCEPT !.inflight = (@ \ {l}) \cup {[l EXCEPT !.pc = "json"]}]

\* the part after fetch() or response.json() rejected
AfterRejection(st, l, message) ==
    Finally(Catch([st EXCEPT !.inflight = @ \ {l}], message, l.id))

\* the part after response.json() resolved
AfterBody(st, l, weatherData) ==
    LET rest == [st EXCEPT !.inflight = @ \ {l}]
        formatted == formatWeatherDisplay(weatherData)
    IN  IF formatted.threw THEN Finally(Catch(rest, formatted.message, l.id))
        ELSE IF weatherResultElement # "element"
        THEN Finally(Catch(rest, TypeErrorMessage, l.id))
        ELSE Finally(showWeatherResult(
                 [rest EXCEPT !.resultContent = formatted.html, !.resultOf = l.id]))

\* ------------------------------------------------- event handlers (501-515)
handleLocationInputKeyPress(st, key) ==
    IF key = "Enter" THEN getWeatherInformation(st) ELSE st

handleSearchButtonClick(st) == getWeatherInformation(st)

\* dispatch of one event to the listeners of an element, in registration order
RECURSIVE Dispatch(_, _, _, _)
Dispatch(listeners, type, key, st) ==
    IF listeners = << >> THEN st
    ELSE LET l == Head(listeners)
             next == IF l.type # type THEN st
                     ELSE IF l.fn = "handleSearchButtonClick" THEN handleSearchButtonClick(st)
                     ELSE IF l.fn = "handleLocationInputKeyPress" THEN handleLocationInputKeyPress(st, key)
                     ELSE st
         IN  Dispatch(Tail(listeners), type, key, next)

\* ------------------------------------------------------ startup (525-621)
AppState == [locationInputElement |-> locationInputElement,
             searchButtonElement |-> searchButtonElement,
             weatherResultElement |-> weatherResultElement,
             buttonListeners |-> buttonListeners,
             inputListeners |-> inputListeners,
             initCalls |-> initCalls]

SetApp(a) ==
    /\ locationInputElement' = a.locationInputElement
    /\ searchButtonElement' = a.searchButtonElement
    /\ weatherResultElement' = a.weatherResultElement
    /\ buttonListeners' = a.buttonListeners
    /\ inputListeners' = a.inputListeners
    /\ initCalls' = a.initCalls

\* getElementByIdSafely (253-259)
getElementByIdSafely(elementId) ==
    IF elementId \in present THEN "element" ELSE "null"

\* setupInputAnimations (221-242): two fresh arrow functions per call
setupInputAnimations(a) ==
    [a EXCEPT !.inputListeners =
        addEventListener(addEventListener(@, Listener("focus", "arrow@225", a.initCalls)),
                         Listener("blur", "arrow@234", a.initCalls))]

\* setupHoverAnimations (567-607): four fresh arrow functions per call
setupHoverAnimations(a) ==
    [a EXCEPT
       !.buttonListeners =
          addEventListener(addEventListener(@, Listener("mouseenter", "arrow@569", a.initCalls)),
                           Listener("mouseleave", "arrow@579", a.initCalls)),
       !.inputListeners =
          addEventListener(addEventListener(@, Listener("mouseenter", "arrow@590", a.initCalls)),
                           Listener("mouseleave", "arrow@598", a.initCalls))]

\* variant: the result container is not checked
RequiredElementsMissing_TwoChecked(a) ==
    \/ a.locationInputElement = "null"
    \/ a.searchButtonElement = "null"

\* the guard of line 532
RequiredElementsMissing(a) ==
    \/ a.locationInputElement = "null"
    \/ a.searchButtonElement = "null"
    \/ a.weatherResultElement = "null"

\* initializeWeatherApp (525-562)
initializeWeatherApp(a) ==
    LET cached == [a EXCEPT
                     !.locationInputElement = getElementByIdSafely(DOM_ELEMENTS.locationInput),
                     !.searchButtonElement = getElementByIdSafely(DOM_ELEMENTS.searchButton),
                     !.weatherResultElement = getElementByIdSafely(DOM_ELEMENTS.weatherResult),
                     !.initCalls = @ + 1]
    IN  IF RequiredElementsMissing(cached) THEN cached
        ELSE LET animated == setupInputAnimations(cached)
                 wired == [animated EXCEPT
                             !.buttonListeners =
                                 addEventListener(@, Listener("click", "handleSearchButtonClick", 0)),
                             !.inputListeners =
                                 addEventListener(@, Listener("keypress", "handleLocationInputKeyPress", 0))]
             IN  setupHoverAnimations(wired)

\* dispatch of DOMContentLoaded to the listeners of document
RECURSIVE DispatchDOMContentLoaded(_, _)
DispatchDOMContentLoaded(listeners, a) ==
    IF listeners = << >> THEN a
    ELSE DispatchDOMContentLoaded(Tail(listeners),
             IF Head(listeners).fn = "initializeWeatherApp"
             THEN initializeWeatherApp(a) ELSE a)

Event(op, id, exit, status) == [op |-> op, id |-> id, exit |-> exit, status |-> status]

\* ------------------------------------------------------------ inputs
ElementIds == {DOM_ELEMENTS.locationInput, DOM_ELEMENTS.searchButton,
               DOM_ELEMENTS.weatherResult}

InputChars == {" ", "a"}
InputValues == SeqsUpTo(InputChars, MaxInputLen)

Statuses == {200, 299, 300, 404}

GoodBody == [current |-> [temp_c |-> 184, condition |-> [text |-> <<"S", "u", "n", "n", "y">>]],
             location |-> [name |-> <<"P", "a", "r", "i", "s">>, country |-> <<"F", "r", "a", "n", "c", "e">>]]
NoCurrentBody == [location |-> [name |-> <<"P", "a", "r", "i", "s">>, country |-> <<"F", "r", "a", "n", "c", "e">>]]
NoTextBody == [current |-> [temp_c |-> 216, condition |-> [code |-> 1000]],
               location |-> [name |-> <<"P", "a", "r", "i", "s">>, country |-> <<"F", "r", "a", "n", "c", "e">>]]
Bodies == {GoodBody, NoCurrentBody, NoTextBody}

\* ------------------------------------------------------------- actions
\* top-level code of the script (613-621)
RunScript ==
    /\ ~scriptRan
    /\ scriptRan' = TRUE
    /\ LET l == Listener("DOMContentLoaded", "initializeWeatherApp", 0)
           first == addEventListener(dclListeners, l)
       IN  IF readyState = "loading"
           THEN /\ dclListeners' = addEventListener(first, l)
                /\ SetApp(AppState)
           ELSE /\ dclListeners' = first
                /\ SetApp(initializeWeatherApp(AppState))
    /\ lastEvent' = Event("script", 0, "none", 0)
    /\ UNCHANGED <<present, readyState, dclFired, inputValue, pageVars, pureVars>>

\* the parser reaches the end of the document
ParseDone ==
    /\ readyState = "loading"
    /\ readyState' = "interactive"
    /\ lastEvent' = Event("parsed", 0, "none", 0)
    /\ UNCHANGED <<present, dclFired, scriptRan, dclListeners, locationInputElement,
                   searchButtonElement, weatherResultElement, buttonListeners,
                   inputListeners, initCalls, inputValue, pageVars, pureVars>>

\* the browser dispatches DOMContentLoaded
FireDOMContentLoaded ==
    /\ readyState = "interactive"
    /\ ~dclFired
    /\ dclFired' = TRUE
    /\ SetApp(DispatchDOMContentLoaded(dclListeners, AppState))
    /\ lastEvent' = Event("DOMContentLoaded", 0, "none", 0)
    /\ UNCHANGED <<present, readyState, scriptRan, dclListeners, inputValue,
                   pageVars, pureVars>>

\* all subresources loaded
LoadDone ==
    /\ readyState = "interactive"
    /\ dclFired
    /\ readyState' = "complete"
    /\ lastEvent' = Event("load", 0, "none", 0)
    /\ UNCHANGED <<present, dclFired, scriptRan, dclListeners, locationInputElement,
                   searchButtonElement, weatherResultElement, buttonListeners,
                   inputListeners, initCalls, inputValue, pageVars, pureVars>>

\* the user clicks the search button; a disabled button dispatches no click
Click ==
    /\ DOM_ELEMENTS.searchButton \in present
    /\ ~disabled
    /\ LET st == Dispatch(buttonListeners, "click", "", PageState)
       IN  /\ st.fetchCount <= MaxLookups
           /\ SetPage(st)
    /\ lastEvent' = Event("click", 0, "none", 0)
    /\ UNCHANGED <<present, startupVars, inputValue, pureVars>>

\* the user presses Enter in the location input
PressEnter ==
    /\ DOM_ELEMENTS.locationInput \in present
    /\ LET st == Dispatch(inputListeners, "keypress", "Enter", PageState)
       IN  /\ st.fetchCount <= MaxLookups
           /\ SetPage(st)
    /\ lastEvent' = Event("enter", 0, "none", 0)
    /\ UNCHANGED <<present, startupVars, inputValue, pureVars>>

\* the user presses a character key: the handlers run, then the default
\* action inserts the character
PressKey(c) ==
    /\ DOM_ELEMENTS.locationInput \in present
    /\ Len(inputValue) < MaxInputLen
    /\ SetPage(Dispatch(inputListeners, "keypress", c, PageState))
    /\ inputValue' = Append(inputValue, c)
    /\ lastEvent' = Event("key", 0, "none", 0)
    /\ UNCHANGED <<present, startupVars, pureVars>>

\* the user clears the location input
ClearInput ==
    /\ DOM_ELEMENTS.locationInput \in present
    /\ inputValue # << >>
    /\ inputValue' = << >>
    /\ lastEvent' = Event("clear", 0, "none", 0)
    /\ UNCHANGED <<present, startupVars, pageVars, pureVars>>

\* fetch() resolves with a response of the given status
FetchResolves(l, status) ==
    /\ l.pc = "fetch"
    /\ SetPage(AfterResponse(PageState, l, status))
    /\ lastEvent' = Event("response", l.id, IF ResponseOk(status) THEN "none" ELSE "http", status)
    /\ UNCHANGED <<present, startupVars, inputValue, pureVars>>

\* fetch() rejects: the transport failed
FetchRejects(l) ==
    /\ l.pc = "fetch"
    /\ SetPage(AfterRejection(PageState, l, <<"F", "a", "i", "l", "e", "d", " ", "t", "o", " ", "f", "e", "t", "c", "h">>))
    /\ lastEvent' = Event("rejected", l.id, "transport", 0)
    /\ UNCHANGED <<present, startupVars, inputValue, pureVars>>

\* response.json() resolves with the parsed body
JsonResolves(l, weatherData) ==
    /\ l.pc = "json"
    /\ SetPage(AfterBody(PageState, l, weatherData))
    /\ lastEvent' = Event("body", l.id,
                          IF formatWeatherDisplay(weatherData).threw THEN "fields" ELSE "success", 0)
    /\ UNCHANGED <<present, startupVars, inputValue, pureVars>>

\* response.json() rejects: the body is not JSON
JsonRejects(l) ==
    /\ l.pc = "json"
    /\ SetPage(AfterRejection(PageState, l, <<"U", "n", "e", "x", "p", "e", "c", "t", "e", "d", " ", "t", "o", "k", "e", "n">>))
    /\ lastEvent' = Event("unparsable", l.id, "parse", 0)
    /\ UNCHANGED <<present, startupVars, inputValue, pureVars>>

\* the state of the page when it starts loading
InitPage ==
    /\ readyState = "loading"
    /\ dclFired = FALSE
    /\ scriptRan = FALSE
    /\ dclListeners = << >>
    /\ locationInputElement = "unset"
    /\ searchButtonElement = "unset"
    /\ weatherResultElement = "unset"
    /\ buttonListeners = << >>
    /\ inputListeners = << >>
    /\ initCalls = 0
    /\ inputValue = << >>
    /\ disabled = FALSE
    /\ buttonClasses = {}
    /\ resultClassName = {"weather-result-card"}
    /\ resultContent = [kind |-> "empty"]
    /\ resultOf = 0
    /\ inflight = {}
    /\ fetchCount = 0
    /\ lastEvent = Event("none", 0, "none", 0)

Init ==
    /\ present \in SUBSET ElementIds
    /\ InitPage
    /\ arg = << >>
    /\ ret = [t |-> "unset"]

Next ==
    \/ RunScript
    \/ ParseDone
    \/ FireDOMContentLoaded
    \/ LoadDone
    \/ Click
    \/ PressEnter
    \/ \E c \in InputChars : PressKey(c)
    \/ ClearInput
    \/ \E l \in inflight, status \in Statuses : FetchResolves(l, status)
    \/ \E l \in inflight : FetchRejects(l)
    \/ \E l \in inflight, weatherData \in Bodies : JsonResolves(l, weatherData)
    \/ \E l \in inflight : JsonRejects(l)

Spec == Init /\ [][Next]_vars

\* ------------------------------------- the pure functions, applied to inputs
ArgChars == {" ", "\t", "a"}

Fragments == {<<"P", "a", "t", "c", "h", "y", " ", "r", "a", "i", "n", " ", "p", "o", "s", "s", "i", "b", "l", "e">>, <<"S", "u", "n", "n", "y">>, <<"C", "L", "E", "A", "R">>, <<"P", "a", "r", "t", "l", "y", " ", "c", "l", "o", "u", "d", "y">>,
              <<" ", "w", "i", "t", "h", " ", "t", "h", "u", "n", "d", "e", "r">>, <<"L", "i", "g", "h", "t", " ", "d", "r", "i", "z", "z", "l", "e">>, <<"B", "l", "o", "w", "i", "n", "g", " ", "s", "n", "o", "w">>, <<"S", "t", "o", "r", "m">>,
              <<"F", "o", "g">>, <<"M", "i", "s", "t">>, <<"W", "i", "n", "d", "y">>, <<"O", "v", "e", "r", "c", "a", "s", "t">>, << >>}

RECURSIVE Concatenations(_)
Concatenations(n) ==
    IF n = 1 THEN Fragments
    ELSE LET shorter == Concatenations(n - 1)
         IN  shorter \cup {a \o b : a \in shorter, b \in Fragments}

InitValidate ==
    /\ present = ElementIds
    /\ InitPage
    /\ arg \in SeqsUpTo(ArgChars, MaxArgLen)
    /\ ret = [t |-> "unset"]

CallValidate ==
    /\ ret.t = "unset"
    /\ ret' = validateLocationInput(arg)
    /\ UNCHANGED <<present, startupVars, inputValue, pageVars, lastEvent, arg>>

SpecValidate == InitValidate /\ [][CallValidate]_vars

InitEmoji ==
    /\ present = ElementIds
    /\ InitPage
    /\ arg \in Concatenations(MaxFragments)
    /\ ret = [t |-> "unset"]

CallEmoji ==
    /\ ret.t = "unset"
    /\ ret' = [t |-> "emoji", v |-> getWeatherEmoji(arg)]
    /\ UNCHANGED <<present, startupVars, inputValue, pageVars, lastEvent, arg>>

SpecEmoji == InitEmoji /\ [][CallEmoji]_vars

\* ---------------------------------------------------------------- claims
Blank(s) == \A i \in 1..Len(s) : s[i] \in WhiteSpace
NonBlank(s) == \E i \in 1..Len(s) : s[i] \notin WhiteSpace
MessageClasses == {"error-message", "warning-message"}
Registered(listeners, type) == {i \in 1..Len(listeners) : listeners[i].type = type}

\* C1: at most one lookup is in flight at any time, whatever the user
\* submits while a call of getWeatherInformation is suspended on its fetch.
C1_AtMostOneInFlight == Cardinality(inflight) <= 1

\* C2: a lookup that entered Loading leaves it, on every exit path (success,
\* non-success status, transport failure, unparsable body, body lacking
\* fields), with the search button enabled and the 'loading' class removed.
C2_CleanupOnEveryExit ==
    lastEvent.exit # "none" => (~disabled /\ "loading" \notin buttonClasses)

C2_Witness ==
    /\ lastEvent.exit = "fields"
    /\ ~disabled
    /\ "loading" \notin buttonClasses
    /\ inflight = {}

\* C3: a submit action (click or Enter) made while the location input is
\* empty or whitespace-only issues no fetch and does not disable the search
\* button; no request ever carries an empty location.
C3_BlankSubmitNeverFetches ==
    [][(lastEvent'.op \in {"click", "enter"} /\ Blank(inputValue))
         => /\ fetchCount' = fetchCount
            /\ inflight' = inflight
            /\ disabled' = disabled
            /\ \A l \in inflight' : l.url.q # << >>]_vars

C3_Witness ==
    /\ lastEvent.op = "enter"
    /\ Registered(inputListeners, "keypress") # {}
    /\ inputValue # << >>
    /\ Blank(inputValue)
    /\ fetchCount = 0
    /\ ~disabled
    /\ resultContent.kind = "text"

\* C4: when the fetch resolves with a non-2xx status S, the lookup fails with
\* a message containing S: an error-type message containing S is shown, no
\* weather fragment is rendered for that response, and the search button is
\* re-enabled.
C4_NonSuccessStatusIsShown ==
    (lastEvent.op = "response" /\ lastEvent.status \notin 200..299)
      => /\ Includes(FetchErrorMessage(lastEvent.status), ToDigits(lastEvent.status))
         /\ resultContent.kind = "text"
         /\ Includes(resultContent.text, ToDigits(lastEvent.status))
         /\ "error-message" \in resultClassName
         /\ resultOf = lastEvent.id
         /\ \A l \in inflight : l.id # lastEvent.id
         /\ ~disabled

C4_Witness ==
    /\ lastEvent.op = "response"
    /\ lastEvent.status = 300
    /\ resultContent.kind = "text"
    /\ Includes(resultContent.text, <<"3", "0", "0">>)
    /\ ~disabled

\* C5: validateLocationInput returns true only for strings whose trimmed
\* length is greater than zero, and returns false for every empty or
\* whitespace-only string.
C5_ValidatorIsPredicate ==
    ret.t # "unset"
      => /\ (ret.t = "boolean" /\ ret.v = TRUE) => NonBlank(arg)
         /\ Blank(arg) => (ret.t = "boolean" /\ ret.v = FALSE)

\* C6: getWeatherEmoji returns the emoji of the first category, in the order
\* clear/sunny, cloudy, rain/drizzle, snow, thunder/storm, fog/mist, windy,
\* one of whose keywords occurs in the condition text regardless of case, and
\* the default emoji exactly when no keyword occurs.
C6_Categories ==
    << [emoji |-> "sun", keywords |-> {<<"s", "u", "n", "n", "y">>, <<"c", "l", "e", "a", "r">>}],
       [emoji |-> "cloud", keywords |-> {<<"c", "l", "o", "u", "d">>}],
       [emoji |-> "rain-cloud", keywords |-> {<<"r", "a", "i", "n">>, <<"d", "r", "i", "z", "z", "l", "e">>}],
       [emoji |-> "snowflake", keywords |-> {<<"s", "n", "o", "w">>}],
       [emoji |-> "thunder-cloud", keywords |-> {<<"t", "h", "u", "n", "d", "e", "r">>, <<"s", "t", "o", "r", "m">>}],
       [emoji |-> "fog", keywords |-> {<<"f", "o", "g">>, <<"m", "i", "s", "t">>}],
       [emoji |-> "wind", keywords |-> {<<"w", "i", "n", "d">>}] >>

C6_Matching(text) ==
    {i \in 1..Len(C6_Categories) :
        \E k \in C6_Categories[i].keywords :
            \E j \in 1..Len(text) :
                /\ j + Len(k) - 1 <= Len(text)
                /\ \A n \in 1..Len(k) :
                      \/ text[j + n - 1] = k[n]
                      \/ \E u \in 1..Len(UpperCase) :
                            UpperCase[u] = text[j + n - 1] /\ LowerCase[u] = k[n]}

C6_FirstMatchWins ==
    ret.t = "emoji"
      => LET matching == C6_Matching(arg)
         IN  /\ matching # {} =>
                  ret.v = C6_Categories[CHOOSE i \in matching : \A j \in matching : i <= j].emoji
             /\ (ret.v = DefaultEmoji) <=> (matching = {})

C6_Witness ==
    /\ ret.t = "emoji"
    /\ arg = <<"P", "a", "t", "c", "h", "y", " ", "r", "a", "i", "n", " ", "p", "o", "s", "s", "i", "b", "l", "e", " ", "w", "i", "t", "h", " ", "t", "h", "u", "n", "d", "e", "r">>
    /\ ret.v = "rain-cloud"

\* C7: if any of the three required elements is missing at startup,
\* initializeWeatherApp aborts: no click or keypress listener is registered,
\* so no later user action starts a lookup or issues a fetch.
C7_MissingElementAbortsInit ==
    present # ElementIds
      => /\ Registered(buttonListeners, "click") = {}
         /\ Registered(inputListeners, "keypress") = {}
         /\ fetchCount = 0
         /\ inflight = {}
         /\ ~disabled

C7_Witness ==
    /\ present = ElementIds \ {"weather-result"}
    /\ initCalls >= 1
    /\ weatherResultElement = "null"
    /\ inputValue = <<"a">>
    /\ lastEvent.op = "enter"
    /\ fetchCount = 0

\* C8: whenever no lookup is in flight, the outcome shown in the result
\* container is that of the most recently submitted accepted query: a
\* response to an earlier submission never overwrites a later one's result.
C8_ShowsLatestOutcome ==
    (inflight = {} /\ resultOf # 0) => resultOf = fetchCount

\* C9: whenever the result container shows a weather fragment it carries
\* neither the 'error-message' nor the 'warning-message' class; those classes
\* are present only while an error or warning message is displayed.
C9_WeatherHasNoMessageClass ==
    /\ resultContent.kind = "html" => resultClassName \cap MessageClasses = {}
    /\ resultClassName \cap MessageClasses # {} => resultContent.kind = "text"

\* C10: in every ready state in which the script can execute,
\* initializeWeatherApp runs exactly once per page load and a single click on
\* the search button starts exactly one lookup.
C10_InitializedOnce ==
    /\ initCalls <= 1
    /\ (scriptRan /\ dclFired) => initCalls = 1
    /\ Cardinality(Registered(buttonListeners, "click")) <= 1

====
